---- MODULE Spec2Model ----
(***************************************************************************)
(* Natural-language query pipeline (MetaLlamaIndexCore.ask), the insight   *)
(* cache (get_cached_insight / cache_insight) with its batch driver, the   *)
(* ExampleEngine's training and ask, compare_backends and the /api/ask     *)
(* handler of the social campaigns demo.                                   *)
(*                                                                         *)
(* Texts are sequences of string tokens.  A question is a sequence of      *)
(* one-character tokens, so that the keyword rules of the enhancer are the *)
(* substring tests the code performs.  The literals of the code are single *)
(* tokens carrying the literal's characters.                               *)
(***************************************************************************)
EXTENDS Integers, Sequences, FiniteSets, TLC

VARIABLES
    pc,                \* position of the current ask call in the pipeline
    question,          \* ask's argument
    enhanced_question, \* local of ask
    tables,            \* local of ask: what the introspection returned
    sql_database,      \* self.sql_database (None or the catalog's tables)
    nl_sql_retriever,  \* self.nl_sql_retriever (None or built)
    sql,               \* local of ask
    results_data,      \* local of ask
    response,          \* the value ask returns (None while the call runs)
    llm_prompt,        \* the prompt of the last Settings.llm.complete call
    pool_idle,         \* open connections idle in self.engine's pool
    checked_out,       \* connections checked out of self.engine
    trail,             \* pipeline states the current call went through
    events,            \* failures that happened during the current call
    insights_cache,    \* rows of the insights_cache table
    now,               \* datetime.now(), in hours
    ticks,             \* how many times the clock advanced
    last,              \* the last cache operation and its outcome
    writers,           \* two concurrent cache_insight calls: position and locals
    write_order,       \* the writers, in the order their UPDATE/INSERT ran
    batch,             \* generate_all_insights: position, locals, return value
    gen_log,           \* what generate_insight did for each entity of the batch
    kb,                \* the training items in the ExampleEngine's vector store
    sources,           \* what train reads: the model JSON files, the store's schema
    trained,           \* the last two train calls
    cmp,               \* compare_backends: position, question, results
    vanna_instance,    \* api.py's global: None or the initialized adapter
    http,              \* the last /api/ask request and the response to it
    race,              \* two ask calls on one instance: positions, self.* fields
    Settings_llm,      \* llama_index's process-wide Settings.llm
    instances          \* the MetaLlamaIndexCore objects constructed so far

askVars ==
    <<pc, question, enhanced_question, tables, sql_database, nl_sql_retriever, sql,
      results_data, response, llm_prompt, pool_idle, checked_out, trail, events>>

cacheVars ==
    <<insights_cache, now, ticks, last>>

putVars ==
    <<writers, write_order>>

batchVars ==
    <<batch, gen_log>>

trainVars ==
    <<kb, sources, trained>>

apiVars ==
    <<vanna_instance, http>>

vars ==
    <<askVars, cacheVars, putVars, batchVars, trainVars, cmp, apiVars, race,
      Settings_llm, instances>>

\* a step of the parts named in touched leaves the other parts alone
Frame(touched) ==
    /\ IF "ask" \in touched THEN TRUE ELSE UNCHANGED askVars
    /\ IF "cache" \in touched THEN TRUE ELSE UNCHANGED cacheVars
    /\ IF "put" \in touched THEN TRUE ELSE UNCHANGED putVars
    /\ IF "batch" \in touched THEN TRUE ELSE UNCHANGED batchVars
    /\ IF "train" \in touched THEN TRUE ELSE UNCHANGED trainVars
    /\ IF "compare" \in touched THEN TRUE ELSE UNCHANGED cmp
    /\ IF "api" \in touched THEN TRUE ELSE UNCHANGED apiVars
    /\ IF "race" \in touched THEN TRUE ELSE UNCHANGED race
    /\ IF "settings" \in touched THEN TRUE ELSE UNCHANGED <<Settings_llm, instances>>

----------------------------------------------------------------------------
(* Bounds of the model.                                                    *)

MaxNodes == 2

MaxRows == 2

\* the clock of the cache model advances at most MaxTicks times
MaxTicks == 2

\* the questions given to the enhancer have at most MaxWords words
MaxWords == 3

\* single generations of one run are at most MaxCalls
MaxCalls == 2

\* adapter instances constructed in one process are at most MaxInstances
MaxInstances == 2

----------------------------------------------------------------------------
(* Python values.                                                          *)

None == <<>>

Some(v) == <<v>>

Whitespace == {" ", "\n"}

RECURSIVE LStrip(_)
LStrip(t) ==
    IF t # <<>> /\ Head(t) \in Whitespace THEN LStrip(Tail(t)) ELSE t

RECURSIVE RStrip(_)
RStrip(t) ==
    IF t # <<>> /\ t[Len(t)] \in Whitespace
    THEN RStrip(SubSeq(t, 1, Len(t) - 1))
    ELSE t

\* str.strip()
Strip(t) == RStrip(LStrip(t))

\* str.split(sep, 1)
Split1(t, sep) ==
    IF \E i \in 1..Len(t) : t[i] = sep
    THEN LET i == CHOOSE k \in 1..Len(t) :
                      t[k] = sep /\ \A j \in 1..(k - 1) : t[j] # sep
         IN  <<SubSeq(t, 1, i - 1), SubSeq(t, i + 1, Len(t))>>
    ELSE <<t>>

\* str.startswith(tok)
StartsWith(t, tok) == t # <<>> /\ t[1] = tok

\* tok in str, for a literal carried as one token
HasToken(t, tok) == \E i \in 1..Len(t) : t[i] = tok

\* term in str, character by character
IsSubstr(term, s) ==
    \E i \in 1..(Len(s) - Len(term) + 1) : SubSeq(s, i, i + Len(term) - 1) = term

LowerChar(c) ==
    CASE c = "A" -> "a" [] c = "B" -> "b" [] c = "C" -> "c" [] c = "D" -> "d"
      [] c = "E" -> "e" [] c = "F" -> "f" [] c = "G" -> "g" [] c = "H" -> "h"
      [] c = "I" -> "i" [] c = "J" -> "j" [] c = "K" -> "k" [] c = "L" -> "l"
      [] c = "M" -> "m" [] c = "N" -> "n" [] c = "O" -> "o" [] c = "P" -> "p"
      [] c = "Q" -> "q" [] c = "R" -> "r" [] c = "S" -> "s" [] c = "T" -> "t"
      [] c = "U" -> "u" [] c = "V" -> "v" [] c = "W" -> "w" [] c = "X" -> "x"
      [] c = "Y" -> "y" [] c = "Z" -> "z" [] OTHER -> c

\* str.lower()
Lower(s) == [i \in 1..Len(s) |-> LowerChar(s[i])]

----------------------------------------------------------------------------
(* Query enhancer: _enhance_question_with_table_guidance.                  *)

TimeTerms ==
    { <<"m", "o", "n", "t", "h">>,
      <<"t", "r", "e", "n", "d">>,
      <<"o", "v", "e", "r", " ", "t", "i", "m", "e">>,
      <<"c", "h", "a", "n", "g", "e">>,
      <<"g", "r", "o", "w", "t", "h">> }

AnomalyTerms ==
    { <<"a", "n", "o", "m", "a", "l", "y">>,
      <<"u", "n", "u", "s", "u", "a", "l">>,
      <<"o", "u", "t", "l", "i", "e", "r">>,
      <<"d", "e", "v", "i", "a", "t", "i", "o", "n">>,
      <<"a", "b", "n", "o", "r", "m", "a", "l">> }

RankingTerms ==
    { <<"r", "a", "n", "k">>,
      <<"r", "a", "n", "k", "i", "n", "g">>,
      <<"t", "o", "p">>,
      <<"b", "e", "s", "t">>,
      <<"w", "o", "r", "s", "t">>,
      <<"c", "o", "m", "p", "a", "r", "e">>,
      <<"c", "o", "m", "p", "a", "r", "i", "s", "o", "n">>,
      <<"p", "e", "r", "f", "o", "r", "m", "a", "n", "c", "e">> }

DetailTerms ==
    { <<"c", "a", "m", "p", "a", "i", "g", "n">>,
      <<"s", "p", "e", "c", "i", "f", "i", "c">>,
      <<"i", "n", "d", "i", "v", "i", "d", "u", "a", "l">>,
      <<"d", "e", "t", "a", "i", "l">> }

TimeHint == " Use the campaign_monthly_metrics table for time-based analysis."

AnomalyHint == " Use the metrics_monthly_anomalies table to identify statistical anomalies."

RankingHint == " Use the campaign_month_performance_rankings table for aggregating campaigns and their performance."

DetailHint == " Use the stg_campaigns table for detailed campaign-level data."

\* any(term in question_lower for term in terms)
AnyTerm(terms, q) == \E term \in terms : IsSubstr(term, Lower(q))

\* the rules with the ranking group tested before the others
enhance_ranking_first(q) ==
    IF AnyTerm(RankingTerms, q) THEN q \o <<RankingHint>>
    ELSE IF AnyTerm(TimeTerms, q) THEN q \o <<TimeHint>>
    ELSE IF AnyTerm(AnomalyTerms, q) THEN q \o <<AnomalyHint>>
    ELSE IF AnyTerm(DetailTerms, q) THEN q \o <<DetailHint>>
    ELSE q

\* the rules building their result from question_lower
enhance_lowered(q) ==
    IF AnyTerm(TimeTerms, q) THEN Lower(q) \o <<TimeHint>>
    ELSE IF AnyTerm(AnomalyTerms, q) THEN Lower(q) \o <<AnomalyHint>>
    ELSE IF AnyTerm(RankingTerms, q) THEN Lower(q) \o <<RankingHint>>
    ELSE IF AnyTerm(DetailTerms, q) THEN Lower(q) \o <<DetailHint>>
    ELSE q

enhance(q) ==
    IF AnyTerm(TimeTerms, q) THEN q \o <<TimeHint>>
    ELSE IF AnyTerm(AnomalyTerms, q) THEN q \o <<AnomalyHint>>
    ELSE IF AnyTerm(RankingTerms, q) THEN q \o <<RankingHint>>
    ELSE IF AnyTerm(DetailTerms, q) THEN q \o <<DetailHint>>
    ELSE q

----------------------------------------------------------------------------
(* Inputs of ask and outcomes of its collaborators.                        *)

Questions ==
    { <<"W", "h", "a", "t", " ", "i", "s", " ", "t", "h", "e", " ", "R", "O", "I",
        " ", "b", "y", " ", "c", "h", "a", "n", "n", "e", "l", "?">>,
      <<"T", "o", "p", " ", "c", "a", "m", "p", "a", "i", "g", "n", " ",
        "g", "r", "o", "w", "t", "h">>,
      <<"b", "l", "a", "h">> }

\* tables the store may hold when it is introspected
StoreTables == {"stg_campaigns", "campaign_monthly_metrics", "channel_metrics"}

KeyTables ==
    {"stg_campaigns", "campaign_monthly_metrics", "metrics_monthly_anomalies",
     "campaign_month_performance_rankings"}

\* node.metadata of a retrieved node: no 'sql_query' key, or its value
NoSqlKey == "<no sql_query>"

SqlTexts == {"SELECT Channel, ROI FROM t", "SELECT nonsense"}

NodeMetas == {NoSqlKey, ""} \cup SqlTexts

RECURSIVE SeqsUpTo(_, _)
SeqsUpTo(S, n) ==
    IF n = 0 THEN {<<>>}
    ELSE LET shorter == SeqsUpTo(S, n - 1)
         IN  shorter \cup {Append(s, x) : s \in {t \in shorter : Len(t) = n - 1}, x \in S}

RetrieverResults == SeqsUpTo(NodeMetas, MaxNodes)

\* words of the questions given to the enhancer: one keyword of each rule
\* in some casing, a word with a keyword inside, a word without any
EnhanceWords ==
    { <<"M", "o", "n", "t", "h">>,
      <<"O", "U", "T", "L", "I", "E", "R">>,
      <<"t", "o", "p">>,
      <<"C", "a", "m", "p", "a", "i", "g", "n">>,
      <<"s", "t", "o", "p", "s">>,
      <<"R", "O", "I">> }

RECURSIVE JoinWords(_)
JoinWords(ws) ==
    IF ws = <<>> THEN <<>>
    ELSE IF Len(ws) = 1 THEN ws[1]
    ELSE ws[1] \o <<" ">> \o JoinWords(Tail(ws))

EnhanceQuestions == {JoinWords(ws) : ws \in SeqsUpTo(EnhanceWords, MaxWords)}

DataRows == {[col |-> "ROI", val |-> "4.2"], [col |-> "ROI", val |-> "1.5"]}

ResultSets == SeqsUpTo(DataRows, MaxRows)

ExecErrors == {"malformed SQL", "missing table", "type error"}

InitErrors == {"introspection failed", "SQLDatabase failed", "NLSQLRetriever failed"}

RetrieveError == "retrieve failed"

\* the row ask stores for a failed execution: {"error": str(e)}
ErrorRow(msg) == [col |-> "error", val |-> msg]

data_scope ==
    "The database only contains campaign performance, audience segments, and marketing metrics data."

\* texts the fallback completion may return
FallbackTexts ==
    { <<" ", "Unable to", " answer that from the marketing data. ", data_scope, "\n",
        "Joke:", " ", "Wish I could be more helpful.", "\n">>,
      <<"Unable to", " help with that. ", data_scope>>,
      <<"Unable to", " help with that.", "\n", "Joke:", " ">>,
      <<"Sorry, I cannot answer that.">>,
      <<>> }

\* texts the description completion may return
DescriptionTexts ==
    { <<"Technology is the audience with the highest ROI (4.2).">>,
      <<>> }


SentinelDescription == "Error generating description"

\* rows of the results shown to the description completion: results_data[:10]
SampleCap == 10

----------------------------------------------------------------------------
(* The self.engine pool: a connection that a with-block releases goes back *)
(* to the pool and stays open there until engine.dispose().                *)

\* pool after `with self.engine.connect()` (or an inspector call) has ended
released(idle) == IF idle = 0 THEN 1 ELSE idle

\* pool after self.engine.dispose()
disposed(idle) == 0

----------------------------------------------------------------------------
(* MetaLlamaIndexCore.ask                                                  *)

QueryResponse(q, s, r, d) ==
    [question |-> q, sql |-> s, results |-> r, description |-> d]

ResponseKeys == {"question", "sql", "results", "description"}

InitAsk ==
    /\ pc = "Idle"
    /\ question = <<>>
    /\ enhanced_question = <<>>
    /\ tables = None
    /\ sql_database = None
    /\ nl_sql_retriever = None
    /\ sql = ""
    /\ results_data = <<>>
    /\ response = None
    /\ llm_prompt = None
    /\ pool_idle = 0
    /\ checked_out = 0
    /\ trail = <<>>
    /\ events = {}

\* the caller invokes ask(question); TextToSQLAdapter.ask delegates to it
ask_begin(q) ==
    /\ pc = "Idle"
    /\ pc' = "Received"
    /\ question' = q
    /\ enhanced_question' = <<>>
    /\ tables' = None
    /\ sql' = ""
    /\ results_data' = <<>>
    /\ response' = None
    /\ llm_prompt' = None
    /\ trail' = <<"Received">>
    /\ events' = {}
    /\ UNCHANGED <<sql_database, nl_sql_retriever, pool_idle, checked_out>>

\* the caller has the response: the call's locals are gone
ask_return ==
    /\ pc = "Responded"
    /\ pc' = "Idle"
    /\ question' = <<>>
    /\ enhanced_question' = <<>>
    /\ tables' = None
    /\ sql' = ""
    /\ results_data' = <<>>
    /\ response' = None
    /\ llm_prompt' = None
    /\ trail' = <<>>
    /\ events' = {}
    /\ UNCHANGED <<sql_database, nl_sql_retriever, pool_idle, checked_out>>

\* ask without its outer except: the exception leaves ask
ask_except_propagates(msg, idle) ==
    /\ pc' = "Raised"
    /\ response' = None
    /\ pool_idle' = idle
    /\ events' = events \cup {"raised"}
    /\ trail' = Append(trail, "Raised")

\* the outer `except Exception` of ask: dispose the engine, return the error
\* response; `idle` is the pool when the exception was raised
ask_except(msg, idle) ==
    /\ pc' = "Responded"
    /\ response' = Some(QueryResponse(question, "", <<>>, <<"Error: ", msg>>))
    /\ pool_idle' = disposed(idle)
    /\ events' = events \cup {"caught"}
    /\ trail' = Append(trail, "Responded")

enhance_step ==
    /\ pc = "Received"
    /\ enhanced_question' = enhance(question)
    /\ pc' = "Enhanced"
    /\ trail' = Append(trail, "Enhanced")
    /\ UNCHANGED <<tables, question, sql_database, nl_sql_retriever, sql, results_data,
                   response, llm_prompt, pool_idle, checked_out, events>>

\* every introspected table goes into the catalog
tables_to_use_all(names) == names

\* tables_to_use = key_tables if key_tables else tables
tables_to_use(names) ==
    IF names \cap KeyTables # {} THEN names \cap KeyTables ELSE names

\* Step 1, first use: introspect, build the SQLDatabase and the retriever
lazy_init_ok ==
    /\ pc = "Enhanced"
    /\ sql_database = None \/ nl_sql_retriever = None
    /\ \E found \in SUBSET StoreTables :
          /\ tables' = Some(found)
          /\ sql_database' = Some(tables_to_use(found))
    /\ nl_sql_retriever' = Some("NLSQLRetriever")
    /\ pool_idle' = released(pool_idle)
    /\ pc' = "Retrieving"
    /\ trail' = Append(trail, "Retrieving")
    /\ events' = events \cup {"init"}
    /\ UNCHANGED <<question, enhanced_question, sql, results_data, response,
                   llm_prompt, checked_out>>

\* Step 1 raising: at the introspection, in SQLDatabase(...), or in
\* NLSQLRetriever(...) (logged and re-raised); the outer except catches it
lazy_init_raises ==
    /\ pc = "Enhanced"
    /\ sql_database = None \/ nl_sql_retriever = None
    /\ \E msg \in InitErrors, found \in SUBSET StoreTables :
          /\ tables' = IF msg = "introspection failed" THEN tables ELSE Some(found)
          /\ sql_database' =
                IF msg = "NLSQLRetriever failed"
                THEN Some(tables_to_use(found))
                ELSE sql_database
          /\ ask_except(msg, IF msg = "introspection failed"
                             THEN pool_idle ELSE released(pool_idle))
    /\ UNCHANGED <<question, enhanced_question, nl_sql_retriever, sql,
                   results_data, llm_prompt, checked_out>>

\* Step 1 without its guard: the objects are built again
lazy_init_rebuild ==
    /\ pc = "Enhanced"
    /\ sql_database # None /\ nl_sql_retriever # None
    /\ \E found \in SUBSET StoreTables :
          /\ tables' = Some(found)
          /\ sql_database' = Some(tables_to_use(found))
    /\ nl_sql_retriever' = Some("NLSQLRetriever")
    /\ pool_idle' = released(pool_idle)
    /\ pc' = "Retrieving"
    /\ trail' = Append(trail, "Retrieving")
    /\ UNCHANGED <<question, enhanced_question, sql, results_data, response,
                   llm_prompt, checked_out, events>>

\* Step 1 skipped: both objects exist
lazy_init_skip ==
    /\ pc = "Enhanced"
    /\ sql_database # None /\ nl_sql_retriever # None
    /\ pc' = "Retrieving"
    /\ trail' = Append(trail, "Retrieving")
    /\ UNCHANGED <<tables, question, enhanced_question, sql_database, nl_sql_retriever,
                   sql, results_data, response, llm_prompt, pool_idle,
                   checked_out, events>>

\* the first node whose metadata has 'sql_query' gives the SQL, else ""
RECURSIVE extract_sql(_)
extract_sql(nodes) ==
    IF nodes = <<>> THEN ""
    ELSE IF Head(nodes) # NoSqlKey THEN Head(nodes)
    ELSE extract_sql(Tail(nodes))

\* Step 2: self.nl_sql_retriever.retrieve(enhanced_question)
retrieve ==
    /\ pc = "Retrieving"
    /\ \E nodes \in RetrieverResults :
          /\ sql' = extract_sql(nodes)
          /\ pc' = IF sql' = "" THEN "RetrievalEmpty" ELSE "Retrieved"
          /\ trail' = Append(trail, pc')
    /\ UNCHANGED <<tables, question, enhanced_question, sql_database, nl_sql_retriever,
                   results_data, response, llm_prompt, pool_idle, checked_out,
                   events>>

retrieve_raises ==
    /\ pc = "Retrieving"
    /\ ask_except(RetrieveError, pool_idle)
    /\ UNCHANGED <<tables, question, enhanced_question, sql_database, nl_sql_retriever,
                   sql, results_data, llm_prompt, checked_out>>


\* the prompt of the fallback completion (it embeds the question and data_scope)
response_prompt(q) ==
    [kind |-> "fallback", question |-> q, scope |-> data_scope, sql |-> "",
     results |-> <<>>, more |-> 0]

\* friendly_message built from the fallback completion's text
friendly_message(text) ==
    LET full_response == Strip(text)
        response_parts == Split1(full_response, "Joke:")
    IN  IF Len(response_parts) > 1 /\ Strip(response_parts[2]) # <<>>
        THEN Strip(response_parts[1]) \o <<" ">> \o Strip(response_parts[2])
        ELSE Strip(response_parts[1])

\* friendly_message when the fallback completion raised
nested_fallback(q) ==
    <<"Unable to", " answer about '">> \o q
       \o <<"' based on marketing data. ",
            "The database only contains campaign metrics and performance data.">>

\* no SQL found: the LLM writes the answer; the response is returned at once
fallback ==
    /\ pc = "RetrievalEmpty"
    /\ llm_prompt' = Some(response_prompt(question))
    /\ \E text \in FallbackTexts :
          response' = Some(QueryResponse(question, "", <<>>, friendly_message(text)))
    /\ events' = events \cup {"fallback_llm_ok"}
    /\ pc' = "Responded"
    /\ trail' = trail \o <<"Synthesizing", "Responded">>
    /\ UNCHANGED <<tables, question, enhanced_question, sql_database, nl_sql_retriever,
                   sql, results_data, pool_idle, checked_out>>

fallback_llm_raises ==
    /\ pc = "RetrievalEmpty"
    /\ llm_prompt' = Some(response_prompt(question))
    /\ response' = Some(QueryResponse(question, "", <<>>, nested_fallback(question)))
    /\ events' = events \cup {"fallback_llm_raised"}
    /\ pc' = "Responded"
    /\ trail' = trail \o <<"Synthesizing", "Responded">>
    /\ UNCHANGED <<tables, question, enhanced_question, sql_database, nl_sql_retriever,
                   sql, results_data, pool_idle, checked_out>>

\* Step 3: pd.read_sql(sql, connection) inside `with self.engine.connect()`
execute_ok ==
    /\ pc = "Retrieved"
    /\ \E rows \in ResultSets : results_data' = rows
    /\ pool_idle' = released(pool_idle)
    /\ pc' = "Executed"
    /\ trail' = trail \o <<"Executing", "Executed">>
    /\ UNCHANGED <<tables, question, enhanced_question, sql_database, nl_sql_retriever,
                   sql, response, llm_prompt, checked_out, events>>

\* Step 3 without its inner except: the outer except answers
execute_fails_uncaught ==
    /\ pc = "Retrieved"
    /\ \E msg \in ExecErrors :
          response' = Some(QueryResponse(question, "", <<>>, <<"Error: ", msg>>))
    /\ pool_idle' = disposed(released(pool_idle))
    /\ pc' = "Responded"
    /\ events' = events \cup {"exec_failed", "caught"}
    /\ trail' = trail \o <<"Executing", "ExecutionFailed", "Responded">>
    /\ UNCHANGED <<tables, question, enhanced_question, sql_database, nl_sql_retriever,
                   sql, results_data, llm_prompt, checked_out>>

\* Step 3 raising: the inner except stores the error as the only row
execute_fails ==
    /\ pc = "Retrieved"
    /\ \E msg \in ExecErrors : results_data' = <<ErrorRow(msg)>>
    /\ pool_idle' = released(pool_idle)
    /\ pc' = "ExecutionFailed"
    /\ events' = events \cup {"exec_failed"}
    /\ trail' = trail \o <<"Executing", "ExecutionFailed">>
    /\ UNCHANGED <<tables, question, enhanced_question, sql_database, nl_sql_retriever,
                   sql, response, llm_prompt, checked_out>>

Min(a, b) == IF a < b THEN a ELSE b

\* the prompt of the description completion
analysis_prompt(q, s, rows) ==
    [kind |-> "analysis", question |-> q, scope |-> "", sql |-> s,
     results |-> SubSeq(rows, 1, Min(Len(rows), SampleCap)),
     more |-> IF Len(rows) > SampleCap THEN Len(rows) - SampleCap ELSE 0]

\* Step 4 and the return: describe the rows (when there are any), build the
\* response, dispose the engine
describe_return(d) ==
    /\ response' = Some(QueryResponse(question, sql, results_data, d))
    /\ pool_idle' = disposed(pool_idle)
    /\ pc' = "Responded"
    /\ UNCHANGED <<tables, question, enhanced_question, sql_database, nl_sql_retriever,
                   sql, results_data, checked_out>>

describe ==
    /\ pc \in {"Executed", "ExecutionFailed"}
    /\ results_data # <<>>
    /\ llm_prompt' = Some(analysis_prompt(question, sql, results_data))
    /\ \E text \in DescriptionTexts : describe_return(text)
    /\ trail' = trail \o <<"Synthesizing", "Responded">>
    /\ UNCHANGED events

\* Step 4 without its inner except: the outer except answers
describe_llm_raises_uncaught ==
    /\ pc \in {"Executed", "ExecutionFailed"}
    /\ results_data # <<>>
    /\ llm_prompt' = Some(analysis_prompt(question, sql, results_data))
    /\ response' = Some(QueryResponse(question, "", <<>>, <<"Error: ", "LLM failed">>))
    /\ pool_idle' = disposed(pool_idle)
    /\ pc' = "Responded"
    /\ trail' = trail \o <<"Synthesizing", "Responded">>
    /\ events' = events \cup {"describe_llm_raised", "caught"}
    /\ UNCHANGED <<tables, question, enhanced_question, sql_database, nl_sql_retriever,
                   sql, results_data, checked_out>>

describe_llm_raises ==
    /\ pc \in {"Executed", "ExecutionFailed"}
    /\ results_data # <<>>
    /\ llm_prompt' = Some(analysis_prompt(question, sql, results_data))
    /\ describe_return(<<SentinelDescription>>)
    /\ trail' = trail \o <<"Synthesizing", "Responded">>
    /\ events' = events \cup {"describe_llm_raised"}

\* no rows: description stays ""
describe_skipped ==
    /\ pc \in {"Executed", "ExecutionFailed"}
    /\ results_data = <<>>
    /\ describe_return(<<>>)
    /\ trail' = Append(trail, "Responded")
    /\ UNCHANGED <<llm_prompt, events>>

AskStep ==
    \/ enhance_step
    \/ lazy_init_ok
    \/ lazy_init_raises
    \/ lazy_init_skip
    \/ retrieve
    \/ retrieve_raises
    \/ fallback
    \/ fallback_llm_raises
    \/ execute_ok
    \/ execute_fails
    \/ describe
    \/ describe_llm_raises
    \/ describe_skipped

----------------------------------------------------------------------------
(* Insight cache: the insights_cache table (PRIMARY KEY (company_name)),   *)
(* get_cached_insight and cache_insight.                                   *)

Companies == {"Cyber Circuit", "TechNova"}

InsightTypes == {"company", "channel"}

\* an insight text is a sequence of tokens
InsightTexts == {<<"<div>A</div>">>, <<"<div>B</div>">>}

\* timedelta(hours=24)
CacheTTL == 24

CacheRow(c, at, text, ty) ==
    [company_name |-> c, generated_at |-> at, insight_text |-> text,
     insight_type |-> ty]

InitCache ==
    /\ insights_cache = {}
    /\ now = 0
    /\ ticks = 0
    /\ last = None

\* SELECT ... WHERE company_name = ?
RowsOf(table, c) == {r \in table : r.company_name = c}

\* the freshness test with >= in place of >
select_fresh_inclusive(table, c, t) ==
    LET hit == {r \in {x \in table : x.company_name = c} :
                   r.generated_at >= t - CacheTTL}
    IN  IF hit = {} THEN None ELSE Some((CHOOSE r \in hit : TRUE).insight_text)

\* SELECT insight_text ... WHERE company_name = ? AND generated_at > ?
\* with ? = now - 24h, then fetchone
select_fresh(table, c, t) ==
    LET hit == {r \in RowsOf(table, c) : r.generated_at > t - CacheTTL}
    IN  IF hit = {} THEN None ELSE Some((CHOOSE r \in hit : TRUE).insight_text)

\* UPDATE insights_cache SET insight_text, generated_at, insight_type
\* WHERE company_name = ?
update_row(table, c, text, ty, t) ==
    {IF r.company_name = c THEN CacheRow(c, t, text, ty) ELSE r : r \in table}

\* INSERT INTO insights_cache (...) VALUES (...)
insert_row(table, c, text, ty, t) ==
    table \cup {CacheRow(c, t, text, ty)}

\* cache_insight without the exists-check: it inserts whatever the table holds
upsert_insert_only(table, c, text, ty, t) ==
    insert_row(table, c, text, ty, t)

\* the table after cache_insight's statements
upsert(table, c, text, ty, t) ==
    IF Cardinality(RowsOf(table, c)) > 0
    THEN update_row(table, c, text, ty, t)
    ELSE insert_row(table, c, text, ty, t)

\* a cache call: its arguments, the time of the call, cache_insight's local
\* `existing`, whether the store worked, and the value returned
CacheOp(op, c, ty, text, at, existing, ok, result) ==
    [op |-> op, company |-> c, type |-> ty, text |-> text, at |-> at,
     existing |-> existing, ok |-> ok, result |-> result]

\* get_cached_insight(company_name): the fresh text, or None
get_cached_insight(c) ==
    /\ last' = Some(CacheOp("get", c, "", <<>>, now, 0, TRUE,
                            select_fresh(insights_cache, c, now)))
    /\ UNCHANGED <<insights_cache, now, ticks>>

\* get_cached_insight when the store raises: logged, None is returned
get_cached_insight_fails(c) ==
    /\ last' = Some(CacheOp("get", c, "", <<>>, now, 0, FALSE, None))
    /\ UNCHANGED <<insights_cache, now, ticks>>

\* cache_insight(company_name, insight_text, insight_type)
cache_insight(c, text, ty) ==
    /\ insights_cache' = upsert(insights_cache, c, text, ty, now)
    /\ last' = Some(CacheOp("put", c, ty, text, now,
                            Cardinality(RowsOf(insights_cache, c)), TRUE, None))
    /\ UNCHANGED <<now, ticks>>

\* cache_insight when the store raises: logged, nothing is written
cache_insight_fails(c, text, ty) ==
    /\ last' = Some(CacheOp("put", c, ty, text, now, 0, FALSE, None))
    /\ UNCHANGED <<insights_cache, now, ticks>>

\* hours by which the clock advances in one step
TickSteps == {1, CacheTTL}

\* time passes
Tick(d) ==
    /\ ticks < MaxTicks
    /\ ticks' = ticks + 1
    /\ now' = now + d
    /\ UNCHANGED <<insights_cache, last>>

----------------------------------------------------------------------------
(* Two cache_insight calls running concurrently, each on its own           *)
(* connection: the exists-check and the UPDATE/INSERT are two statements.  *)

Writers == {"w1", "w2"}

Writer(at, c, text, ty, existing, raised) ==
    [pc |-> at, company |-> c, text |-> text, type |-> ty,
     existing |-> existing, raised |-> raised]

IdlePut ==
    /\ writers = [w \in Writers |-> Writer("idle", "", <<>>, "", 0, FALSE)]
    /\ write_order = <<>>

\* cache_insight(company_name, insight_text, insight_type) is called
put_begin(w, c, text, ty) ==
    /\ writers[w].pc = "idle"
    /\ writers' = [writers EXCEPT ![w] = Writer("check", c, text, ty, 0, FALSE)]
    /\ UNCHANGED <<write_order, cacheVars>>

\* existing = SELECT COUNT(*) FROM insights_cache WHERE company_name = ?
put_check(w) ==
    /\ writers[w].pc = "check"
    /\ writers' = [writers EXCEPT
          ![w].pc = "write",
          ![w].existing = Cardinality(RowsOf(insights_cache, writers[w].company))]
    /\ UNCHANGED <<write_order, cacheVars>>

\* existing > 0: the UPDATE
put_update(w) ==
    /\ writers[w].pc = "write"
    /\ writers[w].existing > 0
    /\ insights_cache' = update_row(insights_cache, writers[w].company,
                                    writers[w].text, writers[w].type, now)
    /\ writers' = [writers EXCEPT ![w].pc = "done"]
    /\ write_order' = Append(write_order, w)
    /\ UNCHANGED <<now, ticks, last>>

\* existing = 0: the INSERT, the key still being free
put_insert(w) ==
    /\ writers[w].pc = "write"
    /\ writers[w].existing = 0
    /\ RowsOf(insights_cache, writers[w].company) = {}
    /\ insights_cache' = insert_row(insights_cache, writers[w].company,
                                    writers[w].text, writers[w].type, now)
    /\ writers' = [writers EXCEPT ![w].pc = "done"]
    /\ write_order' = Append(write_order, w)
    /\ UNCHANGED <<now, ticks, last>>

\* existing = 0: the INSERT, the key having been inserted since the check;
\* the primary key rejects it and cache_insight's except logs the error
put_insert_conflict(w) ==
    /\ writers[w].pc = "write"
    /\ writers[w].existing = 0
    /\ RowsOf(insights_cache, writers[w].company) # {}
    /\ writers' = [writers EXCEPT ![w].pc = "done", ![w].raised = TRUE]
    /\ write_order' = Append(write_order, w)
    /\ UNCHANGED cacheVars

----------------------------------------------------------------------------
(* generate_insight and the batch driver generate_all_insights.            *)

\* SELECT DISTINCT Company ... ORDER BY Company
CompanyLists ==
    {<<>>, <<"Cyber Circuit">>, <<"Cyber Circuit", "NexGen Systems">>,
     <<"NexGen Systems", "TechNova">>,
     <<"Cyber Circuit", "NexGen Systems", "TechNova">>}

\* str.startswith, str.endswith and the slice text[a:-b] on token sequences
startswith(text, prefix) ==
    Len(text) >= Len(prefix) /\ SubSeq(text, 1, Len(prefix)) = prefix

endswith(text, suffix) ==
    Len(text) >= Len(suffix)
        /\ SubSeq(text, Len(text) - Len(suffix) + 1, Len(text)) = suffix

Slice(text, a, b) == SubSeq(text, a + 1, Len(text) - b)

\* the characters of a fence: BT is one backtick, NL one newline
Fence == <<"BT", "BT", "BT">>

HtmlFence == Fence \o <<"h", "t", "m", "l">>

\* Clean up the response: the if / elif on the fence markers
strip_fence(text) ==
    IF startswith(text, HtmlFence) /\ endswith(text, Fence)
    THEN Slice(text, 7, 3)
    ELSE IF startswith(text, <<"BT">>) /\ endswith(text, <<"BT">>)
    THEN Slice(text, 1, 1)
    ELSE text

\* texts the LLM answers with: nothing, bare HTML, HTML in single backticks,
\* in a html fence, in a plain fence, in a html fence followed by a newline,
\* and a html fence with nothing in it
LlmTexts ==
    {<<>>,
     <<"<div>A</div>">>,
     <<"BT", "<div>A</div>", "BT">>,
     HtmlFence \o <<"NL", "<div>A</div>", "NL">> \o Fence,
     Fence \o <<"NL", "<div>A</div>", "NL">> \o Fence,
     HtmlFence \o <<"NL", "<div>A</div>", "NL">> \o Fence \o <<"NL">>,
     HtmlFence \o Fence}

\* what fetching the data and self.llm.invoke do: raise, or give a text
LlmOutcomes ==
    {[raises |-> TRUE, text |-> <<>>]}
        \cup {[raises |-> FALSE, text |-> t] : t \in LlmTexts}

\* what one call of generate_insight did: the table it leaves, whether it
\* raised, the value it returned, whether a cache call of it failed, what
\* became of the LLM call, and the text handed to cache_insight
Generated(table, threw, value, cache_failed, llm, written) ==
    [table |-> table, threw |-> threw, value |-> value,
     cache_failed |-> cache_failed, llm |-> llm, written |-> written]

\* generate_insight with the cache written before the text is looked at
generate_insight_cache_first(table, t, c, force, read_ok, gen, write_ok) ==
    LET cached == IF force \/ ~read_ok THEN None ELSE select_fresh(table, c, t)
        read_failed == ~force /\ ~read_ok
        after == IF write_ok THEN upsert(table, c, strip_fence(gen.text), "company", t)
                 ELSE table
    IN  IF cached # None /\ cached[1] # <<>>
        THEN Generated(table, FALSE, cached, FALSE, "none", None)
        ELSE IF gen.raises
        THEN Generated(table, TRUE, None, read_failed, "raised", None)
        ELSE IF gen.text = <<>>
        THEN Generated(after, FALSE, None, read_failed \/ ~write_ok, "empty",
                       Some(<<>>))
        ELSE Generated(after, FALSE, Some(strip_fence(gen.text)),
                       read_failed \/ ~write_ok, "text",
                       Some(strip_fence(gen.text)))

\* generate_insight(company_name, force_refresh)
generate_insight(table, t, c, force, read_ok, gen, write_ok) ==
    LET cached == IF force \/ ~read_ok THEN None ELSE select_fresh(table, c, t)
        read_failed == ~force /\ ~read_ok
        insight_text == strip_fence(gen.text)
    IN  IF cached # None /\ cached[1] # <<>>
        THEN Generated(table, FALSE, cached, FALSE, "none", None)
        ELSE IF gen.raises
        THEN Generated(table, TRUE, None, read_failed, "raised", None)
        ELSE IF gen.text = <<>>
        THEN Generated(table, FALSE, None, read_failed, "empty", None)
        ELSE Generated(IF write_ok
                       THEN upsert(table, c, insight_text, "company", t)
                       ELSE table,
                       FALSE, Some(insight_text), read_failed \/ ~write_ok,
                       "text", Some(insight_text))

Batch(at, companies, force, i, successes, failures, failed, result) ==
    [pc |-> at, companies |-> companies, force_refresh |-> force, i |-> i,
     successes |-> successes, failures |-> failures,
     failed_companies |-> failed, result |-> result]

IdleBatch ==
    /\ batch = Batch("idle", <<>>, FALSE, 1, 0, 0, <<>>, None)
    /\ gen_log = <<>>

\* generate_all_insights(force_refresh): the company query, the generator
batch_begin(companies, force) ==
    /\ batch.pc = "idle"
    /\ batch' = IF companies = <<>>
                THEN Batch("done", companies, force, 1, 0, 0, <<>>, Some(FALSE))
                ELSE Batch("loop", companies, force, 1, 0, 0, <<>>, None)
    /\ UNCHANGED <<gen_log, cacheVars>>

\* the connection, the query or InsightsGenerator() raises: the outer except
batch_setup_raises(force) ==
    /\ batch.pc = "idle"
    /\ batch' = Batch("done", <<>>, force, 1, 0, 0, <<>>, Some(FALSE))
    /\ UNCHANGED <<gen_log, cacheVars>>

\* `if insight:` on an optional text
truthy(v) == v # None /\ v[1] # <<>>

\* what is recorded of a call: its arguments and time, the LLM's answer and
\* what generate_insight made of it
Logged(c, t, force, gen, out) ==
    [company |-> c, at |-> t, force |-> force, threw |-> out.threw,
     value |-> out.value, cache_failed |-> out.cache_failed, llm |-> out.llm,
     output |-> IF out.llm = "text" THEN gen.text ELSE <<>>,
     written |-> out.written]

\* the loop body with the try around the whole loop: a raise ends the batch
tally_abort(b, c, out) ==
    IF out.threw
    THEN [b EXCEPT !.pc = "done", !.result = Some(FALSE)]
    ELSE IF truthy(out.value)
    THEN [b EXCEPT !.successes = @ + 1, !.i = @ + 1]
    ELSE [b EXCEPT !.failures = @ + 1, !.failed_companies = Append(@, c),
                   !.i = @ + 1]

\* the loop body's try / if insight / else / except
tally(b, c, out) ==
    IF ~out.threw /\ truthy(out.value)
    THEN [b EXCEPT !.successes = @ + 1, !.i = @ + 1]
    ELSE [b EXCEPT !.failures = @ + 1, !.failed_companies = Append(@, c),
                   !.i = @ + 1]

\* one iteration of the loop
generate_step ==
    /\ batch.pc = "loop"
    /\ batch.i <= Len(batch.companies)
    /\ \E read_ok \in BOOLEAN, write_ok \in BOOLEAN, gen \in LlmOutcomes :
          LET c == batch.companies[batch.i]
              out == generate_insight(insights_cache, now, c, batch.force_refresh,
                                      read_ok, gen, write_ok)
          IN  /\ insights_cache' = out.table
              /\ batch' = tally(batch, c, out)
              /\ gen_log' = Append(gen_log,
                    Logged(c, now, batch.force_refresh, gen, out))
    /\ UNCHANGED <<now, ticks, last>>

\* the summary and return failures == 0
batch_return ==
    /\ batch.pc = "loop"
    /\ batch.i > Len(batch.companies)
    /\ batch' = [batch EXCEPT !.pc = "done", !.result = Some(batch.failures = 0)]
    /\ UNCHANGED <<gen_log, cacheVars>>

\* generate_insight_cli(company_name, 'company', force_refresh) for a company
\* that exists: one call of generate_insight
generate_insight_cli(c, force) ==
    /\ Len(gen_log) < MaxCalls
    /\ \E read_ok \in BOOLEAN, write_ok \in BOOLEAN, gen \in LlmOutcomes :
          LET out == generate_insight(insights_cache, now, c, force, read_ok,
                                      gen, write_ok)
          IN  /\ insights_cache' = out.table
              /\ gen_log' = Append(gen_log, Logged(c, now, force, gen, out))
    /\ UNCHANGED <<now, ticks, last, batch>>

----------------------------------------------------------------------------
(* Training: MetaVannaCore.train_on_dbt_models and the CLI's               *)
(* train_llamaindex.  A training item is identified by its content.        *)

\* one documentation item per table of INFORMATION_SCHEMA.COLUMNS
PlanItems == {"doc:campaign_monthly_metrics", "doc:channel_monthly_metrics"}

\* every item the vector store can hold: the plan's and those of older sources
KbItems == PlanItems \cup {"doc:stg_campaigns", "sql:top campaigns by roi"}

\* how self.vn.get_training_data() answers: a DataFrame with an id column,
\* a DataFrame without one, or an exception
Listings == {"ids", "no_id", "raises"}

\* a call f(**passed) of a function with the parameters params raises
\* TypeError when a keyword is not a parameter
call_raises(params, passed) == ~(passed \subseteq params)

TrainCall(engine, before, after, added, failed, raised) ==
    [engine |-> engine, before |-> before, after |-> after, added |-> added,
     failed |-> failed, raised |-> raised]

IdleTrain ==
    /\ kb = {}
    /\ sources = [has_models |-> TRUE, plan |-> PlanItems]
    /\ trained = <<>>

\* the removal loop leaving after its first item
clear_one(items, listing, raising) ==
    IF listing = "ids" /\ items # {}
    THEN items \ {CHOOSE x \in items : TRUE}
    ELSE items

\* the clear step: what is left of items when the removal of the items in
\* raising raises; without a usable listing nothing is removed
clear(items, listing, raising) ==
    IF listing = "ids" THEN items \cap raising ELSE items

\* train_on_dbt_models(): clear, then train on the information schema;
\* rebuilt is what self.vn.train(plan=plan) added before it returned or raised
train_on_dbt_models ==
    \E listing \in Listings, raising \in SUBSET kb, rebuilt \in SUBSET sources.plan :
        LET kept == clear(kb, listing, raising)
            plan == IF sources.has_models THEN sources.plan ELSE {}
        IN  /\ rebuilt \subseteq plan
            /\ kb' = kept \cup rebuilt
            /\ trained' = (IF Len(trained) = 2 THEN Tail(trained) ELSE trained)
                  \o <<TrainCall("vanna", kb, kept \cup rebuilt, rebuilt,
                          \/ listing = "raises"
                          \/ listing = "no_id" /\ kb # {}
                          \/ raising # {}
                          \/ rebuilt # plan,
                          FALSE)>>
            /\ UNCHANGED sources

\* train_llamaindex(): initialize_llamaindex(api_key, model, temperature,
\* train=True), a function of api_key, model and temperature
train_llamaindex ==
    LET raised == call_raises({"api_key", "model", "temperature"},
                              {"api_key", "model", "temperature", "train"})
    IN  /\ trained' = (IF Len(trained) = 2 THEN Tail(trained) ELSE trained)
              \o <<TrainCall("llamaindex", kb, kb, {}, raised, raised)>>
        /\ UNCHANGED <<kb, sources>>

----------------------------------------------------------------------------
(* compare_backends of the CLI.                                            *)

\* the two try blocks, in order
Engines == <<"llamaindex", "vanna">>

\* what an engine does once its factory got through: it answers, or its
\* construction or its ask raises
EngineOutcomes == {"ok", "construction failed", "ask failed"}

\* the entry a try block stores for its engine: the factory is called with
\* train=True; a backend name outside the enum resolves to llamaindex
compare_entry(engine, q, outcome) ==
    IF call_raises({"backend", "api_key", "model", "temperature"},
                   {"backend", "api_key", "model", "temperature", "train"})
    THEN [engine |-> engine, payload |-> None,
          error |-> Some("unexpected keyword argument 'train'")]
    ELSE IF outcome # "ok"
    THEN [engine |-> engine, payload |-> None, error |-> Some(outcome)]
    ELSE [engine |-> engine, error |-> None,
          payload |-> Some([backend |-> IF engine \in {"llamaindex"}
                                        THEN engine ELSE "llamaindex",
                            question |-> q])]

IdleCompare ==
    cmp = [pc |-> "idle", question |-> <<>>, results |-> <<>>, outcomes |-> <<>>]

\* compare_backends(question, company, ...): the company suffix, results = {}
compare_begin(q, company) ==
    /\ cmp.pc \in {"idle", "done"}
    /\ cmp' = [pc |-> "block",
               question |-> IF company = None THEN q
                            ELSE q \o <<" for ", company[1]>>,
               results |-> <<>>, outcomes |-> <<>>]

\* one try around both blocks: the first error ends the comparison
after_block_abort(c, entry, outcome) ==
    [c EXCEPT !.results = Append(@, entry), !.outcomes = Append(@, outcome),
              !.pc = IF entry.error # None THEN "done" ELSE @]

\* a block's try/except stores its entry; the next block follows
after_block(c, entry, outcome) ==
    [c EXCEPT !.results = Append(@, entry), !.outcomes = Append(@, outcome)]

\* the try block of the next engine
compare_block(outcome) ==
    /\ cmp.pc = "block"
    /\ Len(cmp.results) < Len(Engines)
    /\ cmp' = after_block(cmp,
                 compare_entry(Engines[Len(cmp.results) + 1], cmp.question, outcome),
                 outcome)

\* return results
compare_return ==
    /\ cmp.pc = "block"
    /\ Len(cmp.results) = Len(Engines)
    /\ cmp' = [cmp EXCEPT !.pc = "done"]

----------------------------------------------------------------------------
(* The ExampleEngine's ask (MetaVannaCore.ask) behind POST /api/ask.       *)

\* what self.vn.run_sql(sql) does
RunOutcomes ==
    {[ok |-> TRUE, rows |-> r, error |-> ""] : r \in ResultSets}
        \cup {[ok |-> FALSE, rows |-> <<>>, error |-> m] : m \in ExecErrors}

\* MetaVannaCore.ask(question): generate_sql is called outside the try
vanna_ask(q, gen_raises, s, run) ==
    IF gen_raises THEN [raised |-> TRUE, value |-> None]
    ELSE IF run.ok
    THEN [raised |-> FALSE,
          value |-> [question |-> q, sql |-> s, results |-> run.rows]]
    ELSE [raised |-> FALSE,
          value |-> [question |-> q, sql |-> s, error |-> run.error]]

\* request bodies: JSON null, a JSON array holding the string "question",
\* a body that is not JSON, and objects with or without question and company
RequestBodies ==
    {[kind |-> k, question |-> None, company |-> None] :
        k \in {"null", "list", "malformed"}}
    \cup {[kind |-> "dict", question |-> qq, company |-> cc] :
            qq \in {None} \cup {Some(q) : q \in Questions},
            cc \in {None} \cup {Some(c) : c \in Companies}}

HttpResponse(body, asked, status, payload, escaped) ==
    [request |-> body, asked |-> asked, status |-> status, payload |-> payload,
     escaped |-> escaped]

\* ask_question(): the /api/ask handler.  request.json raises BadRequest for
\* a body that is not JSON, data['question'] raises TypeError for an array;
\* both are outside the try, and Flask answers with its own error page.
ask_question(instance, body, gen_raises, s, run) ==
    IF instance = None
    THEN HttpResponse(body, None, 500, [error |-> "Vanna is not initialized"], FALSE)
    ELSE IF body.kind = "malformed"
    THEN HttpResponse(body, None, 400, [html |-> "Bad Request"], TRUE)
    ELSE IF body.kind = "null" \/ (body.kind = "dict" /\ body.question = None)
    THEN HttpResponse(body, None, 400,
                      [error |-> "Missing required parameter: question"], FALSE)
    ELSE IF body.kind = "list"
    THEN HttpResponse(body, None, 500, [html |-> "Internal Server Error"], TRUE)
    ELSE LET q == IF body.company = None THEN body.question[1]
                  ELSE body.question[1] \o <<" for ", body.company[1]>>
             out == vanna_ask(q, gen_raises, s, run)
         IN  IF out.raised
             THEN HttpResponse(body, Some(out), 500,
                               [error |-> "Failed to process question"], FALSE)
             ELSE IF "error" \in DOMAIN out.value
             THEN HttpResponse(body, Some(out), 500,
                               [error |-> out.value.error], FALSE)
             ELSE HttpResponse(body, Some(out), 200, out.value, FALSE)

IdleApi ==
    /\ vanna_instance = None
    /\ http = None

\* init_app() with an API key: initialize_vanna succeeds (when it does not,
\* vanna_instance stays None)
init_app ==
    /\ vanna_instance = None
    /\ vanna_instance' = Some("MetaVannaCore")
    /\ UNCHANGED http

\* a POST /api/ask request is served
api_ask(body, gen_raises, s, run) ==
    /\ http' = Some(ask_question(vanna_instance, body, gen_raises, s, run))
    /\ UNCHANGED vanna_instance

\* the request of GET /companies/<company_id>/insights and when it came
InsightsRequest(c, t) == [kind |-> "insights", company |-> c, at |-> t]

\* SELECT ... WHERE company_name = ? ORDER BY generated_at DESC LIMIT 1
select_latest(table, c) ==
    LET rows == RowsOf(table, c)
    IN  IF rows = {} THEN None
        ELSE Some(CHOOSE r \in rows :
                     \A x \in rows : x.generated_at <= r.generated_at)

\* company_insights(company_id): the row of the company whatever its age,
\* else the file of the company, else 404; 500 when the store raises
company_insights(c, store_ok, file) ==
    /\ http' = Some(
          LET result == select_latest(insights_cache, c)
          IN  IF ~store_ok
              THEN HttpResponse(InsightsRequest(c, now), None, 500,
                                [error |-> "store error"], FALSE)
              ELSE IF result = None /\ file = None
              THEN HttpResponse(InsightsRequest(c, now), None, 404,
                                [error |-> "No insights found for company"], FALSE)
              ELSE IF result = None
              THEN HttpResponse(InsightsRequest(c, now), None, 200,
                                [company |-> c, insight |-> file[1],
                                 generated_at |-> now, source |-> "file"], FALSE)
              ELSE HttpResponse(InsightsRequest(c, now), None, 200,
                                [company |-> c,
                                 insight |-> strip_fence(result[1].insight_text),
                                 generated_at |-> result[1].generated_at,
                                 source |-> "database"], FALSE))
    /\ UNCHANGED vanna_instance

----------------------------------------------------------------------------
(* Two threads calling ask on one MetaLlamaIndexCore that has not built    *)
(* its catalog yet: the statements of ask that touch self.sql_database,    *)
(* self.nl_sql_retriever and self.engine, on the path without exceptions.  *)

Threads == {"t1", "t2"}

\* no adapter exists, no ask is running
IdleAdapters ==
    /\ race = [at |-> [t \in Threads |-> "called"], sql_database |-> None,
               nl_sql_retriever |-> None, builds |-> 0, half_seen |-> FALSE,
               disposed_under |-> FALSE]
    /\ Settings_llm = None
    /\ instances = <<>>

\* if self.sql_database is None or self.nl_sql_retriever is None:
ask_guard(t) ==
    /\ race.at[t] = "called"
    /\ race' = [race EXCEPT
          !.at[t] = IF race.sql_database = None \/ race.nl_sql_retriever = None
                    THEN "introspecting" ELSE "retrieving",
          !.half_seen = @ \/ (race.sql_database # None
                                /\ race.nl_sql_retriever = None)]

\* the introspection and self.sql_database = SQLDatabase(...)
ask_sql_database(t) ==
    /\ race.at[t] = "introspecting"
    /\ race' = [race EXCEPT !.at[t] = "binding", !.sql_database = Some(t),
                            !.builds = @ + 1]

\* self.nl_sql_retriever = NLSQLRetriever(sql_database=self.sql_database)
ask_nl_sql_retriever(t) ==
    /\ race.at[t] = "binding"
    /\ race' = [race EXCEPT !.at[t] = "retrieving", !.nl_sql_retriever = Some(t)]

\* Step 2 and `with self.engine.connect() as connection:` of Step 3
ask_connect(t) ==
    /\ race.at[t] = "retrieving"
    /\ race' = [race EXCEPT !.at[t] = "executing"]

\* the query returns, Step 4, self.engine.dispose() and return response
ask_dispose(t) ==
    /\ race.at[t] = "executing"
    /\ race' = [race EXCEPT
          !.at[t] = "returned",
          !.disposed_under = @ \/ \E u \in Threads \ {t} : race.at[u] = "executing"]

----------------------------------------------------------------------------
(* The LLM of MetaLlamaIndexCore: __init__ and _setup_llamaindex put it in *)
(* the Settings object of llama_index, ask reads it from there.            *)

\* the model name given to GoogleGenAI
model_name(model) ==
    IF Head(model) = "gemini-" THEN model
    ELSE IF Head(model) = "models/" /\ Head(Tail(model)) = "gemini-" THEN Tail(model)
    ELSE IF Head(model) = "models/" THEN <<"gemini-">> \o Tail(model)
    ELSE <<"gemini-">> \o model

\* the llm of _setup_llamaindex: GoogleGenAI, or HuggingFaceLLM when that
\* raises, or MockLLM when that raises as well
setup_llm(model, temperature, built) ==
    IF built = "GoogleGenAI"
    THEN [class |-> built, model |-> model_name(model), temperature |-> Some(temperature)]
    ELSE IF built = "HuggingFaceLLM"
    THEN [class |-> built, model |-> <<"google/flan-t5-small">>, temperature |-> None]
    ELSE [class |-> built, model |-> <<>>, temperature |-> None]

\* MetaLlamaIndexCore(api_key, model, temperature): Settings.llm = llm
construct(model, temperature, built) ==
    /\ Len(instances) < MaxInstances
    /\ Settings_llm' = Some(setup_llm(model, temperature, built))
    /\ instances' = Append(instances,
          [model |-> model, temperature |-> temperature,
           llm |-> setup_llm(model, temperature, built), completed_by |-> None])

\* Settings.llm.complete(...) in an ask of instance i: the fallback text or
\* the description
complete(i) ==
    /\ i \in 1..Len(instances)
    /\ instances' = [instances EXCEPT ![i].completed_by = Settings_llm]
    /\ UNCHANGED Settings_llm

Init ==
    InitAsk /\ InitCache /\ IdlePut /\ IdleBatch /\ IdleTrain /\ IdleCompare /\ IdleApi
        /\ IdleAdapters

NextAsk ==
    \/ (\E q \in Questions : ask_begin(q)) /\ Frame({"ask"})
    \/ enhance_step /\ Frame({"ask"})
    \/ lazy_init_ok /\ Frame({"ask"})
    \/ lazy_init_raises /\ Frame({"ask"})
    \/ lazy_init_skip /\ Frame({"ask"})
    \/ retrieve /\ Frame({"ask"})
    \/ retrieve_raises /\ Frame({"ask"})
    \/ fallback /\ Frame({"ask"})
    \/ fallback_llm_raises /\ Frame({"ask"})
    \/ execute_ok /\ Frame({"ask"})
    \/ execute_fails /\ Frame({"ask"})
    \/ describe /\ Frame({"ask"})
    \/ describe_llm_raises /\ Frame({"ask"})
    \/ describe_skipped /\ Frame({"ask"})
    \/ ask_return /\ Frame({"ask"})

SpecAsk == Init /\ [][NextAsk]_vars

\* ask has received a question and is about to enhance it
InitEnhance ==
    /\ pc = "Received"
    /\ question \in EnhanceQuestions
    /\ enhanced_question = <<>>
    /\ tables = None
    /\ sql_database = None
    /\ nl_sql_retriever = None
    /\ sql = ""
    /\ results_data = <<>>
    /\ response = None
    /\ llm_prompt = None
    /\ pool_idle = 0
    /\ checked_out = 0
    /\ trail = <<"Received">>
    /\ events = {}
    /\ InitCache
    /\ IdlePut
    /\ IdleBatch
    /\ IdleTrain
    /\ IdleCompare
    /\ IdleApi
    /\ IdleAdapters

NextEnhance ==
    \/ enhance_step /\ Frame({"ask"})

SpecEnhance == InitEnhance /\ [][NextEnhance]_vars

\* ask runs synchronously on the caller's thread: a started call keeps going
FairSpecAsk == SpecAsk /\ WF_vars(AskStep /\ Frame({"ask"}))

NextCache ==
    \/ (\E c \in Companies : get_cached_insight(c)) /\ Frame({"cache"})
    \/ (\E c \in Companies : get_cached_insight_fails(c)) /\ Frame({"cache"})
    \/ (\E c \in Companies, text \in InsightTexts, ty \in InsightTypes :
           cache_insight(c, text, ty)) /\ Frame({"cache"})
    \/ (\E c \in Companies, text \in InsightTexts, ty \in InsightTypes :
           cache_insight_fails(c, text, ty)) /\ Frame({"cache"})
    \/ (\E d \in TickSteps : Tick(d)) /\ Frame({"cache"})

SpecCache == Init /\ [][NextCache]_vars

\* rows written by earlier calls
InitPut ==
    /\ InitAsk
    /\ IdlePut
    /\ IdleBatch
    /\ IdleTrain
    /\ IdleCompare
    /\ IdleApi
    /\ IdleAdapters
    /\ insights_cache \in SUBSET {CacheRow(c, 0, <<"<div>A</div>">>, "company") : c \in Companies}
    /\ now = 0
    /\ ticks = 0
    /\ last = None

NextPut ==
    \/ (\E w \in Writers, c \in Companies, text \in InsightTexts,
           ty \in InsightTypes : put_begin(w, c, text, ty)) /\ Frame({"cache", "put"})
    \/ (\E w \in Writers : put_check(w)) /\ Frame({"cache", "put"})
    \/ (\E w \in Writers : put_update(w)) /\ Frame({"cache", "put"})
    \/ (\E w \in Writers : put_insert(w)) /\ Frame({"cache", "put"})
    \/ (\E w \in Writers : put_insert_conflict(w)) /\ Frame({"cache", "put"})

SpecPut == InitPut /\ [][NextPut]_vars

\* rows written on earlier days: 24h old, or 1h old
InitBatch ==
    /\ InitAsk
    /\ IdlePut
    /\ IdleBatch
    /\ IdleTrain
    /\ IdleCompare
    /\ IdleApi
    /\ IdleAdapters
    /\ insights_cache \in SUBSET {CacheRow("Cyber Circuit", 0, <<"<div>A</div>">>, "company"),
                                 CacheRow("NexGen Systems", CacheTTL - 1, <<"<div>B</div>">>, "company")}
    /\ now = CacheTTL
    /\ ticks = 0
    /\ last = None

NextBatch ==
    \/ (\E companies \in CompanyLists, force \in BOOLEAN :
           batch_begin(companies, force)) /\ Frame({"cache", "batch"})
    \/ (\E force \in BOOLEAN : batch_setup_raises(force)) /\ Frame({"cache", "batch"})
    \/ generate_step /\ Frame({"cache", "batch"})
    \/ batch_return /\ Frame({"cache", "batch"})

SpecBatch == InitBatch /\ [][NextBatch]_vars

\* single generations as time passes, over rows written on earlier days
NextInsight ==
    \/ (\E c \in {"Cyber Circuit", "NexGen Systems"}, force \in BOOLEAN :
           generate_insight_cli(c, force)) /\ Frame({"cache", "batch"})
    \/ (\E d \in TickSteps : Tick(d)) /\ Frame({"cache"})

SpecInsight == InitBatch /\ [][NextInsight]_vars

\* reads of the served insight as time passes, over the same rows
NextServe ==
    \/ (\E c \in {"Cyber Circuit", "NexGen Systems", "TechNova"},
            store_ok \in BOOLEAN, file \in {None, Some(<<"<div>A</div>">>)} :
           company_insights(c, store_ok, file)) /\ Frame({"api"})
    \/ (\E d \in TickSteps : Tick(d)) /\ Frame({"cache"})

SpecServe == InitBatch /\ [][NextServe]_vars

\* two asks of one new instance, interleaved
NextRace ==
    \/ (\E t \in Threads : ask_guard(t)) /\ Frame({"race"})
    \/ (\E t \in Threads : ask_sql_database(t)) /\ Frame({"race"})
    \/ (\E t \in Threads : ask_nl_sql_retriever(t)) /\ Frame({"race"})
    \/ (\E t \in Threads : ask_connect(t)) /\ Frame({"race"})
    \/ (\E t \in Threads : ask_dispose(t)) /\ Frame({"race"})

SpecRace == Init /\ [][NextRace]_vars

\* adapters constructed in one process and the LLM calls of their asks; the
\* temperatures are in tenths
NextSettings ==
    \/ (\E model \in {<<"gemini-", "1.5-pro">>, <<"models/", "gemini-", "1.5-flash">>,
                      <<"2.0-flash">>},
           temperature \in {2, 7},
           built \in {"GoogleGenAI", "HuggingFaceLLM", "MockLLM"} :
           construct(model, temperature, built)) /\ Frame({"settings"})
    \/ (\E i \in 1..MaxInstances : complete(i)) /\ Frame({"settings"})

SpecSettings == Init /\ [][NextSettings]_vars

\* a vector store left by earlier trainings, and the sources of this run
InitTrain ==
    /\ InitAsk
    /\ InitCache
    /\ IdlePut
    /\ IdleBatch
    /\ kb \in SUBSET KbItems
    /\ sources \in [has_models : BOOLEAN, plan : SUBSET PlanItems]
    /\ trained = <<>>
    /\ IdleCompare
    /\ IdleApi
    /\ IdleAdapters

NextTrain ==
    \/ train_on_dbt_models /\ Frame({"train"})
    \/ train_llamaindex /\ Frame({"train"})

SpecTrain == InitTrain /\ [][NextTrain]_vars

NextCompare ==
    \/ (\E q \in Questions, company \in {None} \cup {Some(c) : c \in Companies} :
           compare_begin(q, company)) /\ Frame({"compare"})
    \/ (\E outcome \in EngineOutcomes : compare_block(outcome)) /\ Frame({"compare"})
    \/ compare_return /\ Frame({"compare"})

SpecCompare == Init /\ [][NextCompare]_vars

NextApi ==
    \/ init_app /\ Frame({"api"})
    \/ (\E body \in RequestBodies, gen_raises \in BOOLEAN, s \in SqlTexts,
           run \in RunOutcomes : api_ask(body, gen_raises, s, run)) /\ Frame({"api"})

SpecApi == Init /\ [][NextApi]_vars

----------------------------------------------------------------------------
(* Properties of ask.                                                      *)

InTrail(st) == \E i \in 1..Len(trail) : trail[i] = st

Responded == pc = "Responded"

\* C1: every ask call ends in Responded with a response that has the four
\* keys question, sql, results, description; no failure of initialization,
\* retrieval, execution or synthesis leaves ask as an exception.
C1_AskAlwaysResponds ==
    /\ [](pc # "Raised")
    /\ [](Responded => response # None /\ DOMAIN response[1] = ResponseKeys
                         /\ response[1].question = question)
    /\ (pc = "Received") ~> Responded

\* an ask that failed in initialization or retrieval has returned its response
C1_Witness ==
    /\ Responded
    /\ "caught" \in events
    /\ response # None

\* C2: in every response, sql = "" implies results = [] and a description
\* that starts with "Unable to".
C2_EmptySqlIsFallback ==
    Responded /\ response[1].sql = ""
        => /\ response[1].results = <<>>
           /\ StartsWith(response[1].description, "Unable to")

\* C3: when retrieval yields no SQL, ask returns sql = "" and a non-empty
\* description starting with "Unable to", whatever the fallback completion
\* returns and also when it raises.
C3_FallbackTotality ==
    Responded /\ InTrail("RetrievalEmpty")
        => /\ response[1].sql = ""
           /\ response[1].description # <<>>
           /\ StartsWith(response[1].description, "Unable to")

\* C4: the sentence used when the fallback completion fails contains the
\* disclaimer sentence that the fallback prompt embeds, character for character.
C4_SameDisclaimer ==
    Responded /\ "fallback_llm_raised" \in events
        => /\ llm_prompt[1].scope = data_scope
           /\ HasToken(response[1].description, llm_prompt[1].scope)

\* C5: when the execution of a retrieved SQL fails, the response keeps the
\* retrieved sql, its results are the error annotation, and the description
\* completion was called on that annotation.
C5_ExecutionFailureIsData ==
    Responded /\ "exec_failed" \in events
        => /\ sql # ""
           /\ response[1].sql = sql
           /\ \E msg \in ExecErrors : response[1].results = <<ErrorRow(msg)>>
           /\ InTrail("Synthesizing")
           /\ llm_prompt # None
           /\ llm_prompt[1].kind = "analysis"
           /\ llm_prompt[1].results = response[1].results

\* an execution failure whose description was written by the LLM
C5_Witness ==
    /\ Responded
    /\ "exec_failed" \in events
    /\ response[1].results = <<ErrorRow("missing table")>>
    /\ response[1].description \in DescriptionTexts \ {<<>>}

\* C6: when the description completion raises, the description is the
\* sentinel, and sql and results are the retrieved SQL and the executed rows.
C6_SynthesisFailureSentinel ==
    Responded /\ "describe_llm_raised" \in events
        => /\ response[1].description = <<SentinelDescription>>
           /\ sql # ""
           /\ response[1].sql = sql
           /\ response[1].results = results_data
           /\ results_data # <<>>

\* a synthesis failure after a successful execution that returned two rows
C6_Witness ==
    /\ Responded
    /\ "describe_llm_raised" \in events
    /\ "exec_failed" \notin events
    /\ Len(response[1].results) = 2

\* C7: after ask returns, on every exit path, no connection of the engine is
\* held or left open in the pool.
C7_ConnectionsReleased ==
    Responded => checked_out = 0 /\ pool_idle = 0

----------------------------------------------------------------------------
(* Properties of the insight cache.                                        *)

\* the step is a cache call of kind op whose store worked
CacheCall(op) ==
    /\ last' # last
    /\ last'[1].op = op
    /\ last'[1].ok

\* C8: get returns the entry's text exactly when now - generated_at < 24h,
\* absent otherwise (also at exactly 24h), and deletes nothing; a get right
\* after a put of the same entity returns the text of that put.
C8_CacheFreshness ==
    [][CacheCall("get") =>
          LET g == last'[1]
              rows == RowsOf(insights_cache, g.company)
          IN  /\ insights_cache' = insights_cache
              /\ rows = {} => g.result = None
              /\ \A r \in rows :
                    /\ now - r.generated_at < CacheTTL => g.result = Some(r.insight_text)
                    /\ now - r.generated_at >= CacheTTL => g.result = None
              /\ (last # None /\ last[1].op = "put" /\ last[1].ok
                     /\ last[1].company = g.company /\ last[1].at = now)
                  => g.result = Some(last[1].text)]_vars

\* a get that found the entity's row exactly 24h old and returned absent
C8_Witness ==
    /\ last # None
    /\ last[1].op = "get"
    /\ last[1].ok
    /\ last[1].result = None
    /\ \E r \in RowsOf(insights_cache, last[1].company) :
          last[1].at - r.generated_at = CacheTTL

\* C9: the table holds at most one row per key, and after a put that found
\* a row of its key the single row carries that put's text and timestamp.
C9_CacheUpsert ==
    /\ \A r1, r2 \in insights_cache :
          r1.company_name = r2.company_name => r1 = r2
    /\ (last # None /\ last[1].op = "put" /\ last[1].ok)
          => RowsOf(insights_cache, last[1].company)
                = {CacheRow(last[1].company, last[1].at, last[1].text, last[1].type)}

\* a second put for a key, later than the first
C9_Witness ==
    /\ last # None
    /\ last[1].op = "put"
    /\ last[1].ok
    /\ last[1].existing = 1
    /\ last[1].at > 0
    /\ Cardinality(insights_cache) = 2

\* C10: a put for (e, t1) leaves the entry stored for (e, t2), t2 # t1,
\* unchanged.
C10_KeyedByEntityAndType ==
    [][CacheCall("put") =>
          \A r \in insights_cache :
             (r.company_name = last'[1].company /\ r.insight_type # last'[1].type)
                => r \in insights_cache']_vars

----------------------------------------------------------------------------
(* Properties of concurrent writers.                                       *)

\* C11: when both concurrent puts have returned, every written key has
\* exactly one row, and the row carries the text of the writer of that key
\* whose UPDATE/INSERT ran last.
C11_LastWriterWins ==
    (\A w \in Writers : writers[w].pc = "done") =>
        \A w \in Writers :
            LET c == writers[w].company
                i == CHOOSE k \in 1..Len(write_order) :
                        /\ writers[write_order[k]].company = c
                        /\ \A j \in (k+1)..Len(write_order) :
                              writers[write_order[j]].company # c
                rows == RowsOf(insights_cache, c)
            IN  /\ Cardinality(rows) = 1
                /\ \A r \in rows : r.insight_text = writers[write_order[i]].text

----------------------------------------------------------------------------
(* Properties of the batch driver.                                         *)

\* the entities of the batch for which generate_insight raised
Threw == {k \in 1..Len(gen_log) : gen_log[k].threw}

\* C12: a batch that got its entity list returns only after processing every
\* entity in order; it returns True exactly when no entity failed; and when
\* generation raised for exactly one entity k and gave a text for the others,
\* it reports N-1 successes and one failure naming k.
C12_BatchIsolation ==
    (batch.pc = "done" /\ batch.companies # <<>>) =>
        LET N == Len(batch.companies)
        IN  /\ Len(gen_log) = N
            /\ \A k \in 1..N : gen_log[k].company = batch.companies[k]
            /\ batch.successes + batch.failures = N
            /\ batch.failures = Len(batch.failed_companies)
            /\ batch.result = Some(batch.failures = 0)
            /\ batch.result = Some(\A k \in 1..N :
                                     ~gen_log[k].threw /\ truthy(gen_log[k].value))
            /\ \A k \in 1..N :
                  (Threw = {k} /\ \A j \in 1..N \ {k} : truthy(gen_log[j].value))
                     => /\ batch.successes = N - 1
                        /\ batch.failed_companies = <<batch.companies[k]>>
                        /\ batch.result = Some(FALSE)

\* a finished batch of three entities in which only the second one raised
C12_Witness ==
    /\ batch.pc = "done"
    /\ Len(batch.companies) = 3
    /\ Threw = {2}
    /\ batch.successes = 2
    /\ batch.failed_companies = <<batch.companies[2]>>

\* C13: an entity during whose generation a cache read or write failed is
\* named in the failure summary of the finished batch.
C13_CacheFailureRecorded ==
    batch.pc = "done" =>
        \A k \in 1..Len(gen_log) :
            gen_log[k].cache_failed =>
                \E j \in 1..Len(batch.failed_companies) :
                    batch.failed_companies[j] = gen_log[k].company

----------------------------------------------------------------------------
(* Properties of training.                                                 *)

\* C14: of two consecutive train calls of the ExampleEngine on the same
\* sources, in neither of which a store operation failed, the second leaves
\* the knowledge base as the first left it: the same items, the same size.
C14_TrainIdempotent ==
    (/\ Len(trained) = 2
     /\ \A k \in 1..2 : trained[k].engine = "vanna" /\ ~trained[k].failed)
        => /\ trained[2].after = trained[1].after
           /\ Cardinality(trained[2].after) = Cardinality(trained[1].after)

\* two trainings in a row, the first one on a store holding items of older
\* sources
C14_Witness ==
    /\ Len(trained) = 2
    /\ \A k \in 1..2 : trained[k].engine = "vanna" /\ ~trained[k].failed
    /\ trained[1].before \ sources.plan # {}
    /\ trained[2].after # {}

\* C15: a train call of either engine completes, and after it the knowledge
\* base holds exactly the items its rebuild produced.
C15_FullWipe ==
    trained # <<>> =>
        LET call == trained[Len(trained)]
        IN  /\ ~call.raised
            /\ call.engine = "vanna" => kb = call.added

----------------------------------------------------------------------------
(* Properties of the query enhancer.                                       *)

\* C16: the enhanced question carries the hint of the first group, in the
\* order time, anomaly, ranking, detail, one of whose keywords occurs in the
\* question in any casing, and no second hint.
C16_EnhancePriority ==
    pc = "Enhanced" =>
        LET low == Lower(question)
            time == \E term \in TimeTerms : IsSubstr(term, low)
            anomaly == \E term \in AnomalyTerms : IsSubstr(term, low)
            ranking == \E term \in RankingTerms : IsSubstr(term, low)
            detail == \E term \in DetailTerms : IsSubstr(term, low)
        IN  /\ time => enhanced_question = question \o <<TimeHint>>
            /\ (~time /\ anomaly) => enhanced_question = question \o <<AnomalyHint>>
            /\ (~time /\ ~anomaly /\ ranking)
                  => enhanced_question = question \o <<RankingHint>>
            /\ (~time /\ ~anomaly /\ ~ranking /\ detail)
                  => enhanced_question = question \o <<DetailHint>>

\* an upper-case anomaly keyword with a ranking and a detail keyword: the
\* anomaly hint alone
C16_Witness ==
    /\ pc = "Enhanced"
    /\ IsSubstr(<<"O", "U", "T", "L", "I", "E", "R">>, question)
    /\ IsSubstr(<<"t", "o", "p">>, question)
    /\ IsSubstr(<<"C", "a", "m", "p", "a", "i", "g", "n">>, question)
    /\ enhanced_question = question \o <<AnomalyHint>>

\* C17: the enhancer returns the question itself when no keyword occurs in
\* it and otherwise the question, unmodified, followed by exactly one hint;
\* it changes nothing of the adapter.
C17_EnhancePure ==
    [][(pc = "Received" /\ pc' = "Enhanced") =>
          LET matched == \E term \in TimeTerms \cup AnomalyTerms \cup RankingTerms
                                          \cup DetailTerms :
                             IsSubstr(term, Lower(question))
          IN  /\ ~matched => enhanced_question' = question
              /\ matched =>
                    /\ Len(enhanced_question') = Len(question) + 1
                    /\ SubSeq(enhanced_question', 1, Len(question)) = question
                    /\ enhanced_question'[Len(question) + 1]
                          \in {TimeHint, AnomalyHint, RankingHint, DetailHint}
              /\ UNCHANGED <<question, sql_database, nl_sql_retriever, pool_idle,
                             checked_out>>]_vars

\* a question without any keyword came back as it was
C17_Witness ==
    /\ pc = "Enhanced"
    /\ question = <<"R", "O", "I", " ", "R", "O", "I">>
    /\ enhanced_question = question

----------------------------------------------------------------------------
(* Properties of compare_backends, MetaVannaCore.ask and /api/ask.         *)

C19_VannaResponseShape ==
    (http # None /\ http[1].asked # None) =>
        /\ ~http[1].asked[1].raised
        /\ DOMAIN http[1].asked[1].value = ResponseKeys

\* C20: no exception leaves the /api/ask handler; its response is the
\* adapter's payload with status 200 or {"error": message}; an adapter that is
\* not initialized, an ask that raised and an ask result with an error field
\* give 500, a request without a question gives 400.
C20_ApiBoundary ==
    http # None =>
        LET r == http[1]
        IN  /\ ~r.escaped
            /\ \/ r.status = 200 /\ r.asked # None /\ r.payload = r.asked[1].value
               \/ r.status \in {400, 500} /\ DOMAIN r.payload = {"error"}
            /\ vanna_instance = None => r.status = 500
            /\ (vanna_instance # None /\ r.request.question = None) => r.status = 400
            /\ (r.asked # None /\ r.asked[1].raised) => r.status = 500
            /\ (r.asked # None /\ ~r.asked[1].raised
                    /\ "error" \in DOMAIN r.asked[1].value) => r.status = 500

----------------------------------------------------------------------------
(* Properties of the lazy initialization and of the state machine of ask.  *)

\* C21: once the catalog and the retriever both exist no step replaces
\* either of them, and an ask that is past Step 1 has both.
C21_BuiltOnceReused ==
    [][/\ (sql_database # None /\ nl_sql_retriever # None)
            => (sql_database' = sql_database /\ nl_sql_retriever' = nl_sql_retriever)
       /\ pc' \in {"Retrieving", "Retrieved", "RetrievalEmpty", "Executed",
                   "ExecutionFailed"}
            => (sql_database' # None /\ nl_sql_retriever' # None)]_vars

\* a later ask on an initialized instance, the engine having been disposed
\* at the end of the earlier one: Step 1 was skipped
C21_Witness ==
    /\ pc = "Retrieving"
    /\ "init" \notin events
    /\ sql_database # None
    /\ nl_sql_retriever # None
    /\ pool_idle = 0

\* C22: the catalog built on first use holds the introspected tables of the
\* allow-list when there is one, and every introspected table otherwise.
C22_KeyTablesPreferred ==
    ("init" \in events /\ tables # None) =>
        LET found == tables[1]
            allowed == {t \in found : t \in KeyTables}
        IN  /\ allowed # {} => sql_database = Some(allowed)
            /\ allowed = {} => sql_database = Some(found)

\* a store with a key table and another table: the catalog has the key table
C22_Witness ==
    /\ "init" \in events
    /\ tables = Some({"stg_campaigns", "channel_metrics"})
    /\ sql_database = Some({"stg_campaigns"})

\* C23: an ask that retrieved SQL goes through Executing, then Synthesizing,
\* then Responded.
C23_AlwaysSynthesizes ==
    (pc = "Responded" /\ InTrail("Retrieved")) =>
        \E i, j, k \in 1..Len(trail) :
            /\ i < j /\ j < k
            /\ trail[i] = "Executing"
            /\ trail[j] = "Synthesizing"
            /\ trail[k] = "Responded"

----------------------------------------------------------------------------
(* Properties of generate_insight and of the served insight.               *)

\* a step that is one call of generate_insight
Generates == Len(gen_log') = Len(gen_log) + 1

\* C24: a call without force_refresh, the store working, for an entity whose
\* entry is fresh returns the cached text, calls no LLM and writes nothing;
\* and two regenerations of an entity without force_refresh, the store
\* working in both, are at least 24h apart.
C24_RegeneratedOncePerWindow ==
    [][Generates =>
          LET e == gen_log'[Len(gen_log')]
              fresh == select_fresh(insights_cache, e.company, now)
          IN  /\ (~e.force /\ ~e.cache_failed /\ fresh # None)
                    => /\ e.llm = "none"
                       /\ e.value = fresh
                       /\ insights_cache' = insights_cache
              /\ \A j \in 1..Len(gen_log) :
                    (/\ gen_log[j].company = e.company
                     /\ ~gen_log[j].force /\ ~e.force
                     /\ ~gen_log[j].cache_failed /\ ~e.cache_failed
                     /\ gen_log[j].llm = "text" /\ e.llm = "text")
                        => e.at - gen_log[j].at >= CacheTTL]_vars

\* C25: the insights endpoint serves from the table only an entry that is
\* less than 24h old at the time of the request.
C25_ServedFresh ==
    (http # None /\ http[1].request.kind = "insights" /\ http[1].status = 200)
        => (http[1].payload.source = "database"
               => http[1].request.at - http[1].payload.generated_at < CacheTTL)

\* an LLM answer wrapped in a code fence, a newline after it or not
Fenced(text) ==
    /\ startswith(text, Fence)
    /\ Len(text) >= 2 * Len(Fence)
    /\ endswith(text, Fence) \/ endswith(text, Fence \o <<"NL">>)

\* C26: the text handed to the cache for a fenced LLM answer neither starts
\* nor ends with a backtick, and an answer that starts with no backtick is
\* handed to the cache as it is.
C26_FenceStripped ==
    \A k \in 1..Len(gen_log) :
        gen_log[k].written # None =>
            LET answer == gen_log[k].output
                text == gen_log[k].written[1]
            IN  /\ Fenced(answer)
                    => \/ text = <<>>
                       \/ text[1] # "BT" /\ text[Len(text)] # "BT"
                /\ ~startswith(answer, <<"BT">>) => text = answer

\* C29: a call of generate_insight in which the LLM call raised or gave an
\* empty text leaves the whole table as it was, also with force_refresh, and
\* raises (LLM raised) or returns None (empty text).
C29_FailedGenerationWritesNothing ==
    [][Generates =>
          LET e == gen_log'[Len(gen_log')]
          IN  /\ e.llm = "raised" => (e.threw /\ insights_cache' = insights_cache)
              /\ e.llm = "empty"
                    => (~e.threw /\ e.value = None /\ insights_cache' = insights_cache)
              /\ e.llm \in {"raised", "empty"} => e.written = None]_vars

\* a forced batch over two entities that have entries: the LLM raised for the
\* first and gave an empty text for the second, and both entries are as before
C29_Witness ==
    /\ batch.force_refresh
    /\ Len(gen_log) >= 2
    /\ gen_log[1].llm = "raised"
    /\ gen_log[2].llm = "empty"
    /\ insights_cache = {CacheRow("Cyber Circuit", 0, <<"<div>A</div>">>, "company"),
                         CacheRow("NexGen Systems", CacheTTL - 1, <<"<div>B</div>">>,
                                  "company")}

----------------------------------------------------------------------------
(* Properties of the comparison's entries.                                 *)

\* C28: the k-th entry of a finished comparison is the response of the k-th
\* engine to the question when that engine answered, and an error exactly
\* when that engine's construction or ask failed.
C28_TwoDistinctAdapters ==
    cmp.pc = "done" =>
        \A k \in 1..Len(Engines) :
            /\ (cmp.results[k].error # None) = (cmp.outcomes[k] # "ok")
            /\ cmp.outcomes[k] = "ok"
                  => cmp.results[k].payload
                        = Some([backend |-> Engines[k], question |-> cmp.question])

----------------------------------------------------------------------------
(* Properties of one adapter instance shared by two calls, and of two      *)
(* adapter instances in one process.                                       *)

\* C27: with two asks interleaved on a new instance the catalog is built at
\* most once, no ask finds the catalog set and the retriever still missing,
\* and no ask disposes the engine while the other one is executing its SQL.
C27_InitOnceUnderInterleaving ==
    /\ race.builds <= 1
    /\ ~race.half_seen
    /\ ~race.disposed_under

\* C30: every LLM call of an ask goes to the LLM built at the construction
\* of the instance it runs on.
C30_LlmInstanceScoped ==
    \A i \in 1..Len(instances) :
        instances[i].completed_by # None
            => instances[i].completed_by = Some(instances[i].llm)

====
